---------------------------- MODULE Spec2Model ----------------------------
(***************************************************************************)
(* Model of perceptron.js: the Vector and Matrix containers (both the      *)
(* src/math and the interface/math-entities definitions), the activation   *)
(* registry and DenseVectorLayer.                                          *)
(*                                                                         *)
(* One object (the receiver, `self`) is alive at a time.  A constructor    *)
(* call creates it, a method call computes `res` from it and from operands *)
(* drawn from bounded pools, Return ends the call, Discard drops the       *)
(* receiver.  The methods that write into the receiver (setRow, setColumn, *)
(* and vectorApply through the rows its copy shares with the receiver) are *)
(* called under SpecWrites, on a Matrix as its constructor left it;        *)
(* `writes` counts those calls.  The row arrays handed to a constructor    *)
(* are distinct arrays, so that a Matrix is given by the value of its rows.*)
(*                                                                         *)
(* Scalars are JavaScript values: a number that is an integer, NaN,        *)
(* undefined (what reading a hole or an index out of range yields), or a   *)
(* non-integer real c * f(n) produced by a transcendental activation f.    *)
(* Indices are 1-based in sequences; the program's 0-based indices are     *)
(* shifted where they enter (getRow, getColumn, setRow, setColumn).         *)
(***************************************************************************)
EXTENDS Integers, Sequences, FiniteSets

VARIABLES self, call, res, writes

vars == <<self, call, res, writes>>

(***************************************************************************)
(* Bounds of the model.                                                    *)
(***************************************************************************)
MaxDim == 2
MaxVal == 1
MaxWrites == 2

Vals == (0 - 1)..MaxVal
Dims == 1..MaxDim

(***************************************************************************)
(* JavaScript scalars and their arithmetic.                                *)
(***************************************************************************)
Num(n) == [t |-> "number", n |-> n, c |-> 1]
NaN == [t |-> "NaN", n |-> 0, c |-> 1]
Undefined == [t |-> "undefined", n |-> 0, c |-> 1]
Opaque == [t |-> "real", n |-> 0, c |-> 1]
Real(f, n, c) == [t |-> f, n |-> n, c |-> c]

IsNum(x) == x.t = "number"
IsNaNLike(x) == x.t \in {"NaN", "undefined"}

\* x * y on JavaScript numbers (undefined converts to NaN).
Mul(x, y) ==
  IF IsNaNLike(x) \/ IsNaNLike(y) THEN NaN
  ELSE IF IsNum(x) /\ IsNum(y) THEN Num(x.n * y.n)
  ELSE IF IsNum(x) /\ y.t # "real"
    THEN (IF x.n = 0 THEN Num(0) ELSE Real(y.t, y.n, y.c * x.n))
  ELSE IF IsNum(y) /\ x.t # "real"
    THEN (IF y.n = 0 THEN Num(0) ELSE Real(x.t, x.n, x.c * y.n))
  ELSE Opaque

\* x + y on JavaScript numbers.
Plus(x, y) ==
  IF IsNaNLike(x) \/ IsNaNLike(y) THEN NaN
  ELSE IF IsNum(x) /\ IsNum(y) THEN Num(x.n + y.n)
  ELSE Opaque

\* seq[i] as JavaScript reads it: undefined outside the stored indices.
At(seq, i) == IF i \in 1..Len(seq) THEN seq[i] ELSE Undefined

Error(tag) == [cls |-> "Error", tag |-> tag]
IsError(v) == v.cls = "Error"

(***************************************************************************)
(* Vector (extends Array<number>, no constructor of its own).              *)
(***************************************************************************)
\* new Vector(...xs): the Array constructor.  One numeric argument is a
\* length, not an element.
VectorNew(xs) ==
  IF Len(xs) = 1 /\ xs[1].t # "undefined"
    THEN IF IsNum(xs[1]) /\ xs[1].n >= 0
           THEN [cls |-> "Vector", elems |-> [i \in 1..xs[1].n |-> Undefined]]
           ELSE Error("RangeError")
    ELSE [cls |-> "Vector", elems |-> xs]

\* Vector.add(b): the length check, then the loop of part_001:97-99, whose
\* body multiplies.
add(a, b) ==
  IF Len(a.elems) # Len(b.elems) THEN Error("VECADD")
  ELSE VectorNew([i \in 1..Len(a.elems) |-> Mul(a.elems[i], b.elems[i])])

\* Vector.numberDot(b): every element times the scalar b.
numberDot(a, b) ==
  VectorNew([i \in 1..Len(a.elems) |-> Mul(a.elems[i], b)])

\* Vector.directDot(other): element-wise product of two vectors of the same
\* length (the method is called by DenseVectorLayer.backwardPass and by the
\* tests; its body is not among the sources).
directDot(a, b) ==
  IF Len(a.elems) # Len(b.elems) THEN Error("DimensionMismatch")
  ELSE [cls |-> "Vector",
        elems |-> [i \in 1..Len(a.elems) |-> Mul(a.elems[i], b.elems[i])]]


(***************************************************************************)
(* Matrix (extends Array<Array<number>>).                                  *)
(***************************************************************************)
\* new Matrix(...rows): rejects an empty row list and ragged rows, then keeps
\* the rows and derives numRows and numCols from them.
MatrixNew(rows) ==
  IF Len(rows) = 0 \/ \E i \in 1..Len(rows) : Len(rows[i]) # Len(rows[1])
    THEN Error("Invalid matrix")
    ELSE [cls |-> "Matrix", rows |-> rows,
          numRows |-> Len(rows), numCols |-> Len(rows[1])]

\* `let sum = 0; for (k = 0; k < n; k++) sum += terms[k]`.
RECURSIVE SumOf(_)
SumOf(terms) ==
  IF Len(terms) = 0 THEN Num(0)
  ELSE Plus(SumOf(SubSeq(terms, 1, Len(terms) - 1)), terms[Len(terms)])

\* this[i][j] as JavaScript reads it when row i exists.
Cell(m, i, j) == At(m.rows[i], j)

\* normalDot with the inner loop stopping one column early (k < numCols - 1).
normalDot_ShortLoop(a, b) ==
  IF a.numCols # b.numRows THEN Error("MATMUL")
  ELSE MatrixNew([i \in 1..a.numRows |->
         [j \in 1..b.numCols |->
           SumOf([k \in 1..(a.numCols - 1) |->
                    Mul(Cell(a, i, k), Cell(b, k, j))])]])

\* Matrix.normalDot(b) of src/math/matrix.ts.
normalDot(a, b) ==
  IF a.numCols # b.numRows THEN Error("MATMUL")
  ELSE MatrixNew([i \in 1..a.numRows |->
         [j \in 1..b.numCols |->
           SumOf([k \in 1..a.numCols |->
                    Mul(Cell(a, i, k), Cell(b, k, j))])]])

\* Matrix.transposedDot(b) of src/math/matrix.ts: checks the row counts.
transposedDot(a, b) ==
  IF a.numRows # b.numRows THEN Error("MATMUL")
  ELSE MatrixNew([i \in 1..a.numCols |->
         [j \in 1..b.numCols |->
           SumOf([k \in 1..a.numRows |->
                    Mul(Cell(a, k, i), Cell(b, k, j))])]])

\* Matrix.transposedDot(b) of interface/math-entities/matrix.ts: checks the
\* column counts, then runs the same loops; reading b[k][j] for a row k that
\* b does not have throws a TypeError.
Interface_transposedDot(a, b) ==
  IF a.numCols # b.numCols THEN Error("MATMUL")
  ELSE IF a.numCols > 0 /\ b.numCols > 0 /\ a.numRows > b.numRows
    THEN Error("TypeError")
  ELSE MatrixNew([i \in 1..a.numCols |->
         [j \in 1..b.numCols |->
           SumOf([k \in 1..a.numRows |->
                    Mul(Cell(a, k, i), Cell(b, k, j))])]])

\* Matrix.matrixDot(b, transpose).
matrixDot(a, b, transposeFlag) ==
  IF ~transposeFlag THEN normalDot(a, b) ELSE transposedDot(a, b)

\* Matrix.transpose().
transpose(a) ==
  MatrixNew([j \in 1..a.numCols |-> [i \in 1..a.numRows |-> Cell(a, i, j)]])

\* Matrix.vectorDot(b): the loops run over this.length and this[0].length.
vectorDot(a, b) ==
  IF a.numCols # Len(b.elems) THEN Error("VECMUL")
  ELSE VectorNew([i \in 1..Len(a.rows) |->
         SumOf([j \in 1..Len(a.rows[1]) |->
                  Mul(Cell(a, i, j), At(b.elems, j))])])

\* Matrix.numberDot(b).
Matrix_numberDot(a, b) ==
  MatrixNew([i \in 1..a.numRows |->
    [j \in 1..a.numCols |-> Mul(Cell(a, i, j), b)]])

\* dot with the transpose argument not handed on to matrixDot.
dot_TransposeDropped(a, b, transposeFlag) ==
  IF b.cls = "Matrix" THEN matrixDot(a, b, FALSE)
  ELSE IF b.cls \in {"Vector", "DenseVectorLayer"} THEN vectorDot(a, b)
  ELSE IF b.cls = "number" THEN Matrix_numberDot(a, b.value)
  ELSE Error("MATMUL type")

\* Matrix.dot(b, transpose): dispatch on the runtime type of b.
dot(a, b, transposeFlag) ==
  IF b.cls = "Matrix" THEN matrixDot(a, b, transposeFlag)
  ELSE IF b.cls \in {"Vector", "DenseVectorLayer"} THEN vectorDot(a, b)
  ELSE IF b.cls = "number" THEN Matrix_numberDot(a, b.value)
  ELSE Error("MATMUL type")

\* Matrix.getRow(idx), idx 0-based.
getRow(m, idx) ==
  IF idx < 0 \/ idx >= m.numRows THEN Error("ROW")
  ELSE VectorNew(m.rows[idx + 1])

\* Matrix.getColumn(idx), idx 0-based: the bound tested is numRows.
getColumn(m, idx) ==
  IF idx < 0 \/ idx >= m.numRows THEN Error("COL")
  ELSE VectorNew([jdx \in 1..m.numRows |-> Cell(m, jdx, idx + 1)])

\* What a method that writes into its receiver leaves: what it returned or
\* threw, and the receiver afterwards.
Outcome(r, m) == [result |-> r, this |-> m]

\* The value of a call that returns nothing.
Returned == [cls |-> "undefined"]

\* cells[k] = v, k 0-based: an index at or past the end lengthens the array
\* (the cells skipped are holes), and a negative k names a property that is
\* not a cell, so that no cell changes.
Store(cells, k, v) ==
  IF k < 0 THEN cells
  ELSE [j \in 1..(IF k + 1 > Len(cells) THEN k + 1 ELSE Len(cells)) |->
          IF j = k + 1 THEN v ELSE At(cells, j)]

\* setRow without its length test.
setRow_Unchecked(m, idx, row) ==
  IF m.numCols > 0 /\ idx + 1 \notin 1..Len(m.rows)
    THEN Outcome(Error("TypeError"), m)
  ELSE IF m.numCols = 0 THEN Outcome(Returned, m)
  ELSE Outcome(Returned,
         [m EXCEPT !.rows[idx + 1] =
            [j \in 1..Len(@) |-> IF j <= m.numCols THEN At(row, j) ELSE @[j]]])

\* Matrix.setRow(idx, row), idx 0-based: the length of row is tested and idx
\* is not; this[idx] is undefined for an idx that names no row, and the first
\* write into it throws.
setRow(m, idx, row) ==
  IF Len(row) # m.numCols THEN Outcome(Error("ROW length"), m)
  ELSE IF m.numCols > 0 /\ idx + 1 \notin 1..Len(m.rows)
    THEN Outcome(Error("TypeError"), m)
  ELSE IF m.numCols = 0 THEN Outcome(Returned, m)
  ELSE Outcome(Returned,
         [m EXCEPT !.rows[idx + 1] =
            [j \in 1..Len(@) |-> IF j <= m.numCols THEN row[j] ELSE @[j]]])

\* Matrix.setColumn(idx, col), idx 0-based: the length of col is tested and
\* idx is not; every row gets col[jdx] stored at idx.
setColumn(m, idx, col) ==
  IF Len(col) # m.numRows THEN Outcome(Error("ROW length"), m)
  ELSE Outcome(Returned,
         [m EXCEPT !.rows =
            [jdx \in 1..Len(@) |->
               IF jdx <= m.numRows THEN Store(@[jdx], idx, col[jdx]) ELSE @[jdx]]])

\* The callbacks handed to vectorApply: v => v and v => v.numberDot(2).
VectorFunctions == {"identity", "double"}

\* f(v) for such a callback.
CallVector(f, v) == IF f = "identity" THEN v ELSE numberDot(v, Num(2))

\* The loop of vectorApply's column branch after its first n rounds.  The copy
\* is built by `new Matrix(...this)`, which keeps the row arrays it is given:
\* copy[jdx] and this[jdx] are one array, so what copy.setColumn stores is
\* stored in the receiver, and this.getColumn reads what was stored before.
RECURSIVE vectorApplyColumns(_, _, _)
vectorApplyColumns(m, f, n) ==
  IF n = 0 THEN Outcome(Returned, m)
  ELSE LET before == vectorApplyColumns(m, f, n - 1)
           col == getColumn(before.this, n - 1)
           fcol == IF IsError(col) THEN col ELSE CallVector(f, col)
       IN IF IsError(before.result) THEN before
          ELSE IF IsError(fcol) THEN Outcome(fcol, before.this)
          ELSE setColumn(before.this, n - 1, fcol.elems)

\* Matrix.vectorApply(f, axis).  The row branch calls getRow(1) in every round
\* and builds a Matrix of what f returned; the column branch returns the copy.
vectorApply(m, f, axis) ==
  IF axis = "row"
    THEN LET row == getRow(m, 1)
             frow == IF IsError(row) THEN row ELSE CallVector(f, row)
         IN IF IsError(frow) THEN Outcome(frow, m)
            ELSE Outcome(MatrixNew([idx \in 1..m.numRows |-> frow.elems]), m)
    ELSE LET done == vectorApplyColumns(m, f, m.numCols)
         IN IF IsError(done.result) THEN done
            ELSE Outcome(MatrixNew(done.this.rows), done.this)

\* The callbacks handed to vectorReduce: (acc, v) => the Vector of the
\* 2 * acc[i] + v[i], and (acc, v) => v.
AccFunctions == {"horner", "second"}

\* f(acc, v) for such a callback.
CallAcc(f, acc, v) ==
  IF f = "second" THEN v
  ELSE [cls |-> "Vector",
        elems |-> [i \in 1..Len(acc.elems) |->
                     Plus(Mul(Num(2), acc.elems[i]), At(v.elems, i))]]

\* What vectorReduce has after a round: the accumulator, or the error thrown,
\* and how often f has been called.
Accumulated(r, k) == [result |-> r, calls |-> k]

\* this.getRow(idx) or this.getColumn(idx), as the axis says.
getAxis(m, axis, idx) == IF axis = "row" THEN getRow(m, idx) ELSE getColumn(m, idx)

\* The accumulator of vectorReduce after the rounds idx = 1 .. n; before the
\* first round it is `new Vector(...this.getRow(0))` (getColumn(0)).
RECURSIVE vectorReduceLoop(_, _, _, _)
vectorReduceLoop(m, f, axis, n) ==
  IF n = 0
    THEN LET first == getAxis(m, axis, 0)
         IN Accumulated(IF IsError(first) THEN first ELSE VectorNew(first.elems), 0)
    ELSE LET before == vectorReduceLoop(m, f, axis, n - 1)
             v == getAxis(m, axis, n)
         IN IF IsError(before.result) THEN before
            ELSE IF IsError(v) THEN Accumulated(v, before.calls)
            ELSE Accumulated(CallAcc(f, before.result, v), before.calls + 1)

\* Matrix.vectorReduce(f, axis): only a count of exactly 1 is refused.
vectorReduce(m, f, axis) ==
  LET count == IF axis = "row" THEN m.numRows ELSE m.numCols
  IN IF count = 1 THEN Accumulated(Error("MATACC"), 0)
     ELSE vectorReduceLoop(m, f, axis, IF count = 0 THEN 0 ELSE count - 1)

(***************************************************************************)
(* Activation registry.  exp is transcendental: for an integer a # 0 the   *)
(* results below that involve it are non-integer reals, kept symbolically. *)
(***************************************************************************)
Keys == {"sigmoid", "tanh", "reLU", "swish"}

\* 1 / (1 + exp(-a)): never an integer for the integers of the model.
sigmoid(a) == IF IsNum(a) THEN Real("sigmoid", a.n, 1) ELSE NaN

\* sigmoid(a) * (1 - sigmoid(a)).
sigmoidGradient(a) == IF IsNum(a) THEN Real("sigmoidGradient", a.n, 1) ELSE NaN

\* 2*sigmoid(2*a) - 1, which is 0 at 0.
tanh(a) ==
  IF ~IsNum(a) THEN NaN
  ELSE IF a.n = 0 THEN Num(0) ELSE Real("tanh", a.n, 1)

\* 2/(1 + exp(-2*a)) - 1, which is 0 at 0.
tanhGradient(a) ==
  IF ~IsNum(a) THEN NaN
  ELSE IF a.n = 0 THEN Num(0) ELSE Real("tanhGradient", a.n, 1)

\* Math.max(0, a).
reLU(a) ==
  IF ~IsNum(a) THEN NaN
  ELSE IF a.n > 0 THEN a ELSE Num(0)

\* a > 0 ? 1 : 0 (a comparison with NaN or undefined is false).
reLUGradient(a) == IF IsNum(a) /\ a.n > 0 THEN Num(1) ELSE Num(0)

\* a * sigmoid(a), which is 0 at 0.
swish(a) ==
  IF ~IsNum(a) THEN NaN
  ELSE IF a.n = 0 THEN Num(0) ELSE Real("swish", a.n, 1)

\* sigmoid(a) + a * sigmoid(a) * (1 - sigmoid(a)), which is 1/2 at 0.
swishGradient(a) == IF IsNum(a) THEN Real("swishGradient", a.n, 1) ELSE NaN

\* activations[key](a).
activations(key, a) ==
  CASE key = "sigmoid" -> sigmoid(a)
    [] key = "tanh" -> tanh(a)
    [] key = "reLU" -> reLU(a)
    [] key = "swish" -> swish(a)

\* activationGradients[key](a).
activationGradients(key, a) ==
  CASE key = "sigmoid" -> sigmoidGradient(a)
    [] key = "tanh" -> tanhGradient(a)
    [] key = "reLU" -> reLUGradient(a)
    [] key = "swish" -> swishGradient(a)

\* A function value handed to apply: an entry of one of the two tables.
Activation(key) == [table |-> "activations", key |-> key]
Gradient(key) == [table |-> "activationGradients", key |-> key]

\* What a table holds under a name it has no entry for: undefined.
NoFunction == [table |-> "undefined", key |-> "undefined"]

\* The activation names a caller can hand over: the type that lists the four
\* registered names is checked by the compiler only, so that a JavaScript
\* caller, or data read at run time, can carry any string.
Names == Keys \cup {"relu"}

\* getActivationFunctionByKey(key): both tables are indexed with key, and
\* nothing is tested.
getActivationFunctionByKey(key) ==
  [activation |-> IF key \in Keys THEN Activation(key) ELSE NoFunction,
   activationGradient |-> IF key \in Keys THEN Gradient(key) ELSE NoFunction]

\* f(x) for such a function value.
Call(f, x) ==
  IF f.table = "activations" THEN activations(f.key, x)
  ELSE activationGradients(f.key, x)

\* Vector.apply(f): a new Vector with f applied to every element (called by
\* DenseVectorLayer and by the tests; its body is not among the sources).
apply(a, f) ==
  IF f = NoFunction /\ Len(a.elems) >= 1 THEN Error("TypeError")
  ELSE [cls |-> "Vector",
        elems |-> [i \in 1..Len(a.elems) |-> Call(f, a.elems[i])]]

\* Whether apply throws when f is undefined and there is no element to call
\* it on is decided by its body: both outcomes are possible.
applyUndecided(a, f) == f = NoFunction /\ Len(a.elems) = 0

(***************************************************************************)
(* DenseVectorLayer (extends Vector).                                      *)
(***************************************************************************)
\* An optional initialValues argument.
Absent == [given |-> FALSE, values |-> <<>>]
Given(xs) == [given |-> TRUE, values |-> xs]

\* new DenseVectorLayer({numNeurons, activation, initialValues}).
DenseVectorLayerNew(params) ==
  LET initialValues == params.initialValues
      numNeurons == params.numNeurons
      initialValuesLength ==
        IF initialValues.given THEN Len(initialValues.values) ELSE 0
      emptyLayer ==
        \/ initialValues.given /\ initialValuesLength <= 0
        \/ ~initialValues.given /\ numNeurons < 0
      fillValues ==
        IF initialValues.given /\ initialValuesLength > 0
          THEN initialValues.values
        ELSE IF ~initialValues.given /\ numNeurons > 0
          THEN [i \in 1..numNeurons |-> Num(0)]
        ELSE <<>>
      super == VectorNew(fillValues)
      found == getActivationFunctionByKey(params.activation)
  IN IF emptyLayer \/ Len(fillValues) <= 0 THEN Error("LAYC")
     ELSE IF IsError(super) THEN super
     ELSE [cls |-> "DenseVectorLayer", elems |-> super.elems,
           activationKey |-> params.activation,
           activation |-> found.activation,
           activationGradient |-> found.activationGradient]

\* DenseVectorLayer.forwardPass({weights, bias, activation}).
forwardPass(this, weights, bias, activation) ==
  LET product == dot(weights, this, FALSE)
      sum == add(bias, product)
      rawValues == apply(sum, this.activation)
  IN IF IsError(product) THEN product
     ELSE IF IsError(sum) THEN sum
     ELSE IF IsError(rawValues) THEN rawValues
     ELSE DenseVectorLayerNew([numNeurons |-> Len(rawValues.elems),
                               initialValues |-> Given(rawValues.elems),
                               activation |-> activation])

\* DenseVectorLayer.backwardPass({weights, incomingGradient}).
backwardPass(this, weights, incomingGradient) ==
  LET transposed == transpose(weights)
      product == dot(transposed, incomingGradient, FALSE)
  IN IF IsError(transposed) THEN transposed
     ELSE IF IsError(product) THEN product
     ELSE IF IsError(apply(this, this.activationGradient))
       THEN apply(this, this.activationGradient)
     ELSE directDot(product, apply(this, this.activationGradient))

\* forwardPass reaches apply with an undefined activation and no element.
forwardPassUndecided(this, weights, bias) ==
  LET product == dot(weights, this, FALSE)
      sum == add(bias, product)
  IN /\ this.activation = NoFunction
     /\ ~IsError(product)
     /\ ~IsError(sum)
     /\ applyUndecided(sum, this.activation)

\* backwardPass reaches apply with an undefined gradient and no element.
backwardPassUndecided(this, weights, incomingGradient) ==
  /\ applyUndecided(this, this.activationGradient)
  /\ ~IsError(transpose(weights))
  /\ ~IsError(dot(transpose(weights), incomingGradient, FALSE))

(***************************************************************************)
(* Inputs.  Constructor arguments and operands are drawn from these sets.  *)
(***************************************************************************)
\* Every list of n numbers of Vals.
NumLists(n) == [1..n -> {Num(v) : v \in Vals}]

\* The argument lists of `new Vector(...)`: every list of at most MaxDim
\* numbers.
ArgLists == UNION {NumLists(n) : n \in 0..MaxDim}

\* Row i of a generated row list: the cells s + p*(i-1) + q*(j-1).
GenRow(len, i, s, p, q) ==
  [j \in 1..len |-> Num(s + p * (i - 1) + q * (j - 1))]

\* A row list with the row lengths lens (ragged when they differ).
GenRows(lens, s, p, q) == [i \in 1..Len(lens) |-> GenRow(lens[i], i, s, p, q)]

\* The shapes of the row lists given to `new Matrix(...)`: at most MaxDim rows
\* of at most MaxDim cells each, the empty list and ragged lists included.
RowLengths == UNION {[1..m -> 0..MaxDim] : m \in 0..MaxDim}

RowLists ==
  {GenRows(lens, s, p, q) : lens \in RowLengths, s \in Vals, p \in Vals, q \in Vals}

\* The Vectors `new Vector(...)` can build from ArgLists.
OperandVectors == {VectorNew(xs) : xs \in ArgLists} \ {Error("RangeError")}

\* Matrix operands: every shape, rows and columns stepping differently.
OperandMatrices ==
  {MatrixNew(GenRows([i \in 1..m |-> n], s, 1, 2)) :
     m \in Dims, n \in 0..MaxDim, s \in Vals}

\* Weight matrices: one Matrix of every shape.
WeightMatrices ==
  {MatrixNew(GenRows([i \in 1..m |-> n], 1, 1, 2)) : m \in Dims, n \in 0..MaxDim}

\* Bias and gradient vectors: the Vectors built from lists s, s+q, s+2q, ...
SmallVectors ==
  {VectorNew(GenRow(n, 1, s, 0, q)) : n \in 0..MaxDim, s \in Vals, q \in {0, 1}}
    \ {Error("RangeError")}

\* Layer specifications.
LayerParams ==
  [numNeurons : (0 - 1)..MaxDim, activation : Names,
   initialValues : {Absent} \cup
     {Given(GenRow(n, 1, s, 0, q)) : n \in 0..MaxDim, s \in Vals, q \in {0, 1}}]

\* What Matrix.dot can be handed.
DotOperands ==
  OperandMatrices \cup OperandVectors
    \cup {[cls |-> "number", value |-> Num(v)] : v \in Vals}
    \cup {[cls |-> "string"]}

\* The matrices the writing methods are called on: one of every shape.
WriteReceivers == WeightMatrices

\* The lists given to setRow and setColumn: -1, 0, 1, ... of every length.
WriteLists == {GenRow(n, 1, 0 - 1, 0, 1) : n \in 0..MaxDim}

Axes == {"row", "column"}

(***************************************************************************)
(* The state machine.                                                      *)
(***************************************************************************)
Init ==
  /\ self = [cls |-> "none"]
  /\ call = [op |-> "none"]
  /\ res = [cls |-> "none"]
  /\ writes = 0

Idle == call.op = "none"

\* A constructor call: the object exists when the constructor returns.
Construct(c, r) ==
  /\ Idle /\ self.cls = "none"
  /\ call' = c
  /\ res' = r
  /\ self' = IF IsError(r) THEN self ELSE r
  /\ UNCHANGED writes

\* A method call that leaves the receiver as it is.
Method(c, r) ==
  /\ Idle
  /\ call' = c
  /\ res' = r
  /\ UNCHANGED <<self, writes>>

IsVector == self.cls \in {"Vector", "DenseVectorLayer"}
IsMatrix == self.cls = "Matrix"
IsLayer == self.cls = "DenseVectorLayer"

NewVector ==
  \E xs \in ArgLists :
    Construct([op |-> "new Vector", xs |-> xs], VectorNew(xs))

NewMatrix ==
  \E rows \in RowLists :
    Construct([op |-> "new Matrix", rows |-> rows], MatrixNew(rows))

NewDenseVectorLayer ==
  \E params \in LayerParams :
    Construct([op |-> "new DenseVectorLayer", params |-> params],
              DenseVectorLayerNew(params))

VectorAdd ==
  /\ IsVector
  /\ \E b \in OperandVectors :
       Method([op |-> "Vector.add", b |-> b], add(self, b))

VectorNumberDot ==
  /\ IsVector
  /\ \E b \in Vals :
       Method([op |-> "Vector.numberDot", b |-> b], numberDot(self, Num(b)))

MatrixDot ==
  /\ IsMatrix
  /\ \E b \in DotOperands, transposeFlag \in BOOLEAN :
       Method([op |-> "Matrix.dot", b |-> b, transpose |-> transposeFlag],
              dot(self, b, transposeFlag))

InterfaceTransposedDot ==
  /\ IsMatrix
  /\ \E b \in OperandMatrices :
       Method([op |-> "Interface.transposedDot", b |-> b],
              Interface_transposedDot(self, b))

GetRow ==
  /\ IsMatrix
  /\ \E idx \in (0 - 1)..MaxDim :
       Method([op |-> "Matrix.getRow", idx |-> idx], getRow(self, idx))

GetColumn ==
  /\ IsMatrix
  /\ \E idx \in (0 - 1)..MaxDim :
       Method([op |-> "Matrix.getColumn", idx |-> idx], getColumn(self, idx))

ForwardPass ==
  /\ IsLayer
  /\ \E weights \in WeightMatrices, bias \in SmallVectors, activation \in Keys :
       \/ Method([op |-> "forwardPass", weights |-> weights, bias |-> bias,
                  activation |-> activation],
                 forwardPass(self, weights, bias, activation))
       \/ /\ Idle /\ forwardPassUndecided(self, weights, bias)
          /\ Method([op |-> "forwardPass", weights |-> weights, bias |-> bias,
                     activation |-> activation],
                    Error("TypeError"))

BackwardPass ==
  /\ IsLayer
  /\ \E weights \in WeightMatrices, incomingGradient \in SmallVectors :
       \/ Method([op |-> "backwardPass", weights |-> weights,
                  incomingGradient |-> incomingGradient],
                 backwardPass(self, weights, incomingGradient))
       \/ /\ Idle /\ backwardPassUndecided(self, weights, incomingGradient)
          /\ Method([op |-> "backwardPass", weights |-> weights,
                     incomingGradient |-> incomingGradient],
                    Error("TypeError"))

Transpose ==
  /\ IsMatrix
  /\ Method([op |-> "Matrix.transpose"], transpose(self))

VectorReduce ==
  /\ IsMatrix
  /\ \E f \in AccFunctions, axis \in Axes :
       LET done == vectorReduce(self, f, axis)
       IN Method([op |-> "Matrix.vectorReduce", f |-> f, axis |-> axis,
                  calls |-> done.calls],
                 done.result)

\* The call is over: its result is dropped.
Return ==
  /\ ~Idle
  /\ call' = [op |-> "none"]
  /\ res' = [cls |-> "none"]
  /\ UNCHANGED <<self, writes>>

\* The receiver is dropped.
Discard ==
  /\ Idle /\ self.cls # "none"
  /\ self' = [cls |-> "none"]
  /\ UNCHANGED <<call, res, writes>>

Next ==
  \/ NewVector
  \/ NewMatrix
  \/ NewDenseVectorLayer
  \/ VectorAdd
  \/ VectorNumberDot
  \/ MatrixDot
  \/ InterfaceTransposedDot
  \/ GetRow
  \/ GetColumn
  \/ ForwardPass
  \/ BackwardPass
  \/ Transpose
  \/ VectorReduce
  \/ Return
  \/ Discard

Spec == Init /\ [][Next]_vars

(***************************************************************************)
(* The methods that write into their receiver, called one after another on *)
(* a Matrix as its constructor left it; at most MaxWrites calls are made.  *)
(***************************************************************************)
InitWrites ==
  /\ self \in WriteReceivers
  /\ call = [op |-> "none"]
  /\ res = [cls |-> "none"]
  /\ writes = 0

\* A method call that may change the receiver.
Write(c, o) ==
  /\ Idle /\ writes < MaxWrites
  /\ call' = c
  /\ res' = o.result
  /\ self' = o.this
  /\ writes' = writes + 1

SetRow ==
  /\ IsMatrix
  /\ \E idx \in (0 - 1)..MaxDim, row \in WriteLists :
       Write([op |-> "Matrix.setRow", idx |-> idx, row |-> row],
             setRow(self, idx, row))

SetColumn ==
  /\ IsMatrix
  /\ \E idx \in (0 - 1)..MaxDim, col \in WriteLists :
       Write([op |-> "Matrix.setColumn", idx |-> idx, col |-> col],
             setColumn(self, idx, col))

VectorApply ==
  /\ IsMatrix
  /\ \E f \in VectorFunctions, axis \in Axes :
       Write([op |-> "Matrix.vectorApply", f |-> f, axis |-> axis],
             vectorApply(self, f, axis))

NextWrites ==
  \/ SetRow
  \/ SetColumn
  \/ VectorApply
  \/ Return

SpecWrites == InitWrites /\ [][NextWrites]_vars

(***************************************************************************)
(* The claims.  What a claim expects is computed here from the operands,   *)
(* by its own definitions, and compared with what the call returned.       *)
(***************************************************************************)
IsDimensionMismatch(r) ==
  IsError(r) /\ r.tag \in {"VECADD", "VECMUL", "MATMUL", "DimensionMismatch"}

IsVectorOf(r, xs) == r.cls = "Vector" /\ r.elems = xs

\* A Vector as the data model has it: a sequence of numbers.
IsNumeric(v) ==
  v.cls \in {"Vector", "DenseVectorLayer"}
    /\ \A i \in 1..Len(v.elems) : IsNum(v.elems[i])

\* The sum of the numbers xs[1], ..., xs[n].
RECURSIVE Sigma(_, _)
Sigma(xs, n) == IF n = 0 THEN Num(0) ELSE Plus(Sigma(xs, n - 1), xs[n])

\* C1: for Vectors a and b of equal length n, a.add(b) is a Vector of length
\* n with element i equal to a[i] + b[i]; when the lengths differ the call
\* fails with a dimension-mismatch error.
C1_VectorAdd ==
  (call.op = "Vector.add" /\ IsNumeric(self) /\ IsNumeric(call.b)) =>
    LET a == self.elems
        b == call.b.elems
    IN IF Len(a) = Len(b)
         THEN IsVectorOf(res, [i \in 1..Len(a) |-> Plus(a[i], b[i])])
         ELSE IsDimensionMismatch(res)

\* A Matrix as the data model has it: at least one row and one column.
IsProperMatrix(m) == m.cls = "Matrix" /\ m.numRows >= 1 /\ m.numCols >= 1

\* Cell (i, j) of the product of a and b: the sum over k of a[i][k]*b[k][j].
ProductCell(a, b, i, j) ==
  Sigma([k \in 1..a.numCols |-> Mul(a.rows[i][k], b.rows[k][j])], a.numCols)

IsNormalDotCall ==
  call.op = "Matrix.dot" /\ call.b.cls = "Matrix" /\ ~call.transpose

\* C2: for Matrices A (m x n) and B (n x p), A.dot(B) with the transpose flag
\* false is a Matrix with numRows = m, numCols = p and cell (i, j) the sum
\* over k of A[i][k]*B[k][j]; when A.numCols differs from B.numRows the call
\* fails with a dimension-mismatch error.
C2_MatrixProduct ==
  IsNormalDotCall =>
    IF self.numCols = call.b.numRows
      THEN /\ res.cls = "Matrix"
           /\ res.numRows = self.numRows
           /\ res.numCols = call.b.numCols
           /\ res.rows = [i \in 1..self.numRows |->
                           [j \in 1..call.b.numCols |->
                             ProductCell(self, call.b, i, j)]]
      ELSE IsDimensionMismatch(res)

\* A product of a 2-row, 2-column receiver whose cells are not all zero.
C2_Witness ==
  /\ IsNormalDotCall
  /\ self.numRows = 2 /\ self.numCols = 2 /\ call.b.numCols = 2
  /\ res.cls = "Matrix"
  /\ res.rows[2][1] # Num(0)
  /\ res.rows[1][2] # res.rows[2][1]

\* What A.transpose().normalDot(B) returns.
TransposeThenDot(a, b) ==
  LET t == transpose(a) IN IF IsError(t) THEN t ELSE normalDot(t, b)

\* The transposed product r of a and b is as C3 has it.
TransposedProductOk(a, b, r) ==
  /\ ~IsError(r) <=> a.numRows = b.numRows
  /\ a.numRows = b.numRows =>
       /\ r = TransposeThenDot(a, b)
       /\ r.numRows = a.numCols
       /\ r.numCols = b.numCols

\* C3: A.dot(B, true) succeeds exactly when A.numRows = B.numRows, and its
\* result then equals A.transpose().normalDot(B) cell for cell, with shape
\* A.numCols x B.numCols; for the Matrix of src/math and for the Matrix of
\* interface/math-entities alike.
C3_TransposedProduct ==
  /\ (call.op = "Matrix.dot" /\ call.transpose
        /\ IsProperMatrix(self) /\ IsProperMatrix(call.b))
       => TransposedProductOk(self, call.b, res)
  /\ (call.op = "Interface.transposedDot"
        /\ IsProperMatrix(self) /\ IsProperMatrix(call.b))
       => TransposedProductOk(self, call.b, res)

\* Element i of the product of the Matrix a and the Vector v.
RowDot(a, v, i) ==
  Sigma([j \in 1..a.numCols |-> Mul(a.rows[i][j], v.elems[j])], a.numCols)

\* C4: for a Matrix A (m x n, m = 1 included) and a Vector v of length n,
\* A.vectorDot(v) is a Vector of length m with element i the sum over j of
\* A[i][j]*v[j]; when A.numCols differs from v.length the call fails with a
\* dimension-mismatch error.
C4_MatrixVectorProduct ==
  (call.op = "Matrix.dot" /\ IsProperMatrix(self) /\ IsNumeric(call.b)) =>
    IF self.numCols = Len(call.b.elems)
      THEN IsVectorOf(res, [i \in 1..self.numRows |-> RowDot(self, call.b, i)])
      ELSE IsDimensionMismatch(res)

\* C5: the Vector built from a non-empty list xs (a list of one number
\* included) has the length of xs and element i equal to xs[i]; so have the
\* Vectors that numberDot, add, Matrix.vectorDot and Matrix.getRow build from
\* the value lists they compute.
C5_VectorConstruction ==
  /\ (call.op = "new Vector" /\ Len(call.xs) >= 1)
       => IsVectorOf(res, call.xs)
  /\ (call.op = "Vector.numberDot" /\ IsNumeric(self))
       => IsVectorOf(res, [i \in 1..Len(self.elems) |->
                             Mul(self.elems[i], Num(call.b))])
  /\ (call.op = "Vector.add" /\ IsNumeric(self) /\ IsNumeric(call.b)
        /\ Len(self.elems) = Len(call.b.elems))
       => res.cls = "Vector" /\ Len(res.elems) = Len(self.elems)
  /\ (call.op = "Matrix.dot" /\ IsProperMatrix(self) /\ IsNumeric(call.b)
        /\ self.numCols = Len(call.b.elems))
       => res.cls = "Vector" /\ Len(res.elems) = self.numRows
  /\ (call.op = "Matrix.getRow" /\ IsProperMatrix(self)
        /\ call.idx >= 0 /\ call.idx < self.numRows)
       => IsVectorOf(res, self.rows[call.idx + 1])

IsLayerOf(r, xs, key) ==
  r.cls = "DenseVectorLayer" /\ r.elems = xs /\ r.activationKey = key

\* What forwardPass returned is what C6 says of the receiver this.
ForwardPassOk(this, weights, bias, activation, r) ==
  IF weights.numCols = Len(this.elems) /\ Len(bias.elems) = weights.numRows
    THEN IsLayerOf(r,
           [i \in 1..weights.numRows |->
             activations(this.activationKey,
                         Plus(bias.elems[i], RowDot(weights, this, i)))],
           activation)
    ELSE IsDimensionMismatch(r)

\* C6: forwardPass({weights, bias, activation}), when weights.numCols =
\* this.length and bias.length = weights.numRows, returns a DenseVectorLayer
\* of length weights.numRows with element i equal to
\* this.activation(bias[i] + sum over j of weights[i][j]*this[j]) and with
\* activation key `activation`; when either requirement is violated it fails
\* with a dimension-mismatch error; the input layer's values are unchanged.
C6_ForwardPass ==
  [][(call'.op = "forwardPass" /\ IsNumeric(self) /\ self.activationKey \in Keys
        /\ IsProperMatrix(call'.weights) /\ IsNumeric(call'.bias))
      => /\ ForwardPassOk(self, call'.weights, call'.bias, call'.activation, res')
         /\ self' = self]_vars

\* Element j of the product of the transpose of a and the Vector v.
ColumnDot(a, v, j) ==
  Sigma([i \in 1..a.numRows |-> Mul(a.rows[i][j], v.elems[i])], a.numRows)

\* C7: backwardPass({weights, incomingGradient}), when weights.numRows =
\* incomingGradient.length and weights.numCols = this.length, returns a Vector
\* of length this.length with element j equal to
\* (sum over i of weights[i][j]*incomingGradient[i]) *
\* this.activationGradient(this[j]); when weights.numRows differs from
\* incomingGradient.length, or the transposed product's length differs from
\* this.length, it fails with a dimension-mismatch error.
C7_BackwardPass ==
  (call.op = "backwardPass" /\ self.activationKey \in Keys
     /\ IsProperMatrix(call.weights) /\ IsNumeric(call.incomingGradient)) =>
    LET w == call.weights
        g == call.incomingGradient
    IN IF w.numRows # Len(g.elems) \/ w.numCols # Len(self.elems)
         THEN IsDimensionMismatch(res)
         ELSE IsVectorOf(res,
                [j \in 1..Len(self.elems) |->
                  Mul(ColumnDot(w, g, j),
                      activationGradients(self.activationKey, self.elems[j]))])

IsInvalidLayer(r) == IsError(r) /\ r.tag = "LAYC"

\* C8: a layer built from {numNeurons, activation, initialValues?} has exactly
\* the values initialValues when they are supplied and non-empty (any length
\* >= 1), and numNeurons zeros when they are absent and numNeurons > 0; every
\* other combination fails with an invalid-layer error, so that no constructed
\* layer has length 0.
C8_LayerConstruction ==
  /\ call.op = "new DenseVectorLayer" =>
       LET p == call.params
       IN IF p.initialValues.given /\ Len(p.initialValues.values) >= 1
            THEN IsLayerOf(res, p.initialValues.values, p.activation)
          ELSE IF ~p.initialValues.given /\ p.numNeurons > 0
            THEN IsLayerOf(res, [i \in 1..p.numNeurons |-> Num(0)], p.activation)
          ELSE IsInvalidLayer(res)
  /\ self.cls = "DenseVectorLayer" => Len(self.elems) >= 1

\* The rows are a non-empty list of rows of one length.
Rectangular(rows) ==
  Len(rows) >= 1 /\ \A i \in 1..Len(rows) : Len(rows[i]) = Len(rows[1])

\* C9: the Matrix constructor succeeds only for a non-empty list of rows of
\* one length, and every constructed Matrix has numRows >= 1 and numCols >= 1,
\* numRows the number of rows and numCols the common row length; an empty row
\* list and ragged rows fail with an error at construction.
C9_MatrixConstruction ==
  /\ call.op = "new Matrix" =>
       /\ res.cls = "Matrix" => Rectangular(call.rows) /\ res.rows = call.rows
       /\ ~Rectangular(call.rows) => IsError(res)
  /\ self.cls = "Matrix" =>
       /\ self.numRows >= 1 /\ self.numCols >= 1
       /\ self.numRows = Len(self.rows)
       /\ \A i \in 1..Len(self.rows) : Len(self.rows[i]) = self.numCols

IsIndexError(r) == IsError(r) /\ r.tag \in {"ROW", "COL"}

\* C10: getRow(i) succeeds exactly when 0 <= i < numRows and returns a Vector
\* of length numCols equal to row i; getColumn(j) succeeds exactly when
\* 0 <= j < numCols and returns a Vector of length numRows equal to column j;
\* any other index fails with an index-out-of-bounds error; for a Matrix of
\* any shape, non-square and single-column included.
C10_RowColumnAccessors ==
  /\ (call.op = "Matrix.getRow" /\ IsProperMatrix(self)) =>
       IF call.idx >= 0 /\ call.idx < self.numRows
         THEN IsVectorOf(res, self.rows[call.idx + 1])
         ELSE IsIndexError(res)
  /\ (call.op = "Matrix.getColumn" /\ IsProperMatrix(self)) =>
       IF call.idx >= 0 /\ call.idx < self.numCols
         THEN IsVectorOf(res, [i \in 1..self.numRows |->
                                self.rows[i][call.idx + 1]])
         ELSE IsIndexError(res)
\* The error setRow and setColumn throw for a list of the wrong length.
IsLengthError(r) == IsError(r) /\ r.tag = "ROW length"

\* m and n have the same rows of the same lengths, and the same cells except
\* where row i meets column j; i = 0 (j = 0) stands for every row (column).
SameExcept(m, n, i, j, width) ==
  /\ Len(n.rows) = Len(m.rows)
  /\ \A r \in 1..Len(m.rows) :
       /\ Len(n.rows[r]) = Len(m.rows[r])
       /\ \A c \in 1..Len(m.rows[r]) :
            (r = i /\ j = 0 /\ c <= width) \/ (c = j /\ i = 0)
              \/ n.rows[r][c] = m.rows[r][c]

\* C11: setRow(i, values) fails with the length error when values has not
\* numCols elements, and setColumn(j, values) when it has not numRows; a call
\* that fails leaves every cell as it was; a call that succeeds with a valid
\* index makes the cells of row i (column j) equal to values and leaves every
\* other cell as it was.
C11_SetRowSetColumn ==
  [][/\ call'.op = "Matrix.setRow" =>
          /\ Len(call'.row) # self.numCols => IsLengthError(res')
          /\ IsError(res') => self' = self
          /\ (Len(call'.row) = self.numCols /\ call'.idx \in 0..(self.numRows - 1))
               => /\ res' = Returned
                  /\ \A c \in 1..self.numCols :
                       self'.rows[call'.idx + 1][c] = call'.row[c]
                  /\ SameExcept(self, self', call'.idx + 1, 0, self.numCols)
     /\ call'.op = "Matrix.setColumn" =>
          /\ Len(call'.col) # self.numRows => IsLengthError(res')
          /\ IsError(res') => self' = self
          /\ (Len(call'.col) = self.numRows /\ call'.idx \in 0..(self.numCols - 1))
               => /\ res' = Returned
                  /\ \A r \in 1..self.numRows :
                       self'.rows[r][call'.idx + 1] = call'.col[r]
                  /\ SameExcept(self, self', 0, call'.idx + 1, self.numCols)
    ]_vars

\* A 2 x 2 Matrix whose second column was just set: the column holds the
\* values and the first column still holds what the constructor was given.
C11_Witness ==
  /\ call.op = "Matrix.setColumn" /\ call.idx = 1 /\ res = Returned
  /\ self.numRows = 2 /\ self.numCols = 2
  /\ self.rows = <<(<<Num(1), call.col[1]>>), (<<Num(2), call.col[2]>>)>>
  /\ call.col[1] # call.col[2]

\* A Matrix of the data model: at least one row and one column, every row of
\* numCols numbers.
IsGrid(m) ==
  /\ IsProperMatrix(m) /\ Len(m.rows) = m.numRows
  /\ \A r \in 1..Len(m.rows) :
       /\ Len(m.rows[r]) = m.numCols
       /\ \A c \in 1..m.numCols : IsNum(m.rows[r][c])

\* Column j of a grid, 1-based.
ColumnOf(m, j) == [r \in 1..Len(m.rows) |-> m.rows[r][j]]

\* What the callback f makes of the list xs.
Image(f, xs) ==
  IF f = "identity" THEN xs ELSE [k \in 1..Len(xs) |-> Mul(xs[k], Num(2))]

\* C12: vectorApply(f, axis) returns a Matrix in which, on the row axis, row
\* idx is f(row idx of the receiver) for every idx, and on the column axis,
\* column idx is f(column idx of the receiver) for every idx.
C12_VectorApply ==
  [][(call'.op = "Matrix.vectorApply" /\ IsGrid(self)) =>
       /\ res'.cls = "Matrix"
       /\ res'.numRows = self.numRows /\ res'.numCols = self.numCols
       /\ IF call'.axis = "row"
            THEN \A r \in 1..self.numRows :
                   res'.rows[r] = Image(call'.f, self.rows[r])
            ELSE \A c \in 1..self.numCols :
                   ColumnOf(res', c) = Image(call'.f, ColumnOf(self, c))
    ]_vars

\* The error vectorReduce throws for an axis with fewer than two entries.
IsRankError(r) == IsError(r) /\ r.tag = "MATACC"

\* What the accumulating callback f makes of the lists acc and v.
Combine(f, acc, v) ==
  IF f = "second" THEN v
  ELSE [k \in 1..Len(acc) |-> Plus(Mul(Num(2), acc[k]), v[k])]

\* f(... f(f(items[1], items[2]), items[3]) ..., items[n]).
RECURSIVE FoldLeft(_, _, _)
FoldLeft(f, items, n) ==
  IF n = 1 THEN items[1] ELSE Combine(f, FoldLeft(f, items, n - 1), items[n])

\* The rows, or the columns, of a grid.
AxisItems(m, axis) ==
  IF axis = "row" THEN m.rows ELSE [c \in 1..m.numCols |-> ColumnOf(m, c)]

\* C13: vectorReduce(f, axis) on an axis of at least two rows (columns) is
\* the left fold of f over them, seeded with the first; on an axis of fewer
\* than two it fails with the rank error and f is never called.
C13_VectorReduce ==
  (call.op = "Matrix.vectorReduce" /\ IsGrid(self)) =>
    LET items == AxisItems(self, call.axis)
    IN IF Len(items) >= 2
         THEN IsVectorOf(res, FoldLeft(call.f, items, Len(items)))
         ELSE IsRankError(res) /\ call.calls = 0

\* The error Matrix.dot throws for an operand it does not support.
IsUnsupportedOperand(r) == IsError(r) /\ r.tag = "MATMUL type"

\* C14: Matrix.dot(b, transpose) is normalDot(b) for a Matrix b without the
\* transpose flag and transposedDot(b) with it, vectorDot(b) for a Vector b,
\* numberDot(b) for a number b, and the unsupported-operand error for a b of
\* any other type.
C14_DotDispatch ==
  call.op = "Matrix.dot" =>
    IF call.b.cls = "Matrix"
      THEN res = (IF call.transpose THEN transposedDot(self, call.b)
                                    ELSE normalDot(self, call.b))
    ELSE IF call.b.cls = "Vector" THEN res = vectorDot(self, call.b)
    ELSE IF call.b.cls = "number" THEN res = Matrix_numberDot(self, call.b.value)
    ELSE IsUnsupportedOperand(res)

\* A dot with the transpose flag that returned a Matrix where the product
\* without the flag is another Matrix.
C14_Witness ==
  /\ call.op = "Matrix.dot" /\ call.b.cls = "Matrix" /\ call.transpose
  /\ res.cls = "Matrix"
  /\ normalDot(self, call.b).cls = "Matrix"
  /\ res # normalDot(self, call.b)

\* The layer l holds the two functions registered under its activation key.
HoldsRegisteredPair(l) ==
  /\ l.activationKey \in Keys
  /\ l.activation = Activation(l.activationKey)
  /\ l.activationGradient = Gradient(l.activationKey)

\* C15: a layer constructed with a registered activation name holds that
\* name's activation and gradient; constructing a layer with a name that is
\* not registered is an error; no layer exists whose activation or gradient
\* is undefined.
C15_ActivationLookup ==
  /\ call.op = "new DenseVectorLayer" =>
       IF call.params.activation \in Keys
         THEN res.cls = "DenseVectorLayer" => HoldsRegisteredPair(res)
         ELSE IsError(res)
  /\ self.cls = "DenseVectorLayer" =>
       self.activation # NoFunction /\ self.activationGradient # NoFunction
  /\ res.cls = "DenseVectorLayer" =>
       res.activation # NoFunction /\ res.activationGradient # NoFunction

\* C16: A.transpose() is a new Matrix with numCols(A) rows and numRows(A)
\* columns whose cell (j, i) is A's cell (i, j); the transpose of that Matrix
\* has A's numRows, A's numCols and A's cells; A is left as it was.
C16_Transpose ==
  [][call'.op = "Matrix.transpose" =>
       /\ res'.cls = "Matrix"
       /\ res'.numRows = self.numCols /\ res'.numCols = self.numRows
       /\ \A i \in 1..self.numRows : \A j \in 1..self.numCols :
            res'.rows[j][i] = self.rows[i][j]
       /\ transpose(res').cls = "Matrix"
       /\ transpose(res').numRows = self.numRows
       /\ transpose(res').numCols = self.numCols
       /\ transpose(res').rows = self.rows
       /\ self' = self
    ]_vars

\* n has the numRows and numCols of m, and a grid of exactly that many rows
\* of exactly that many cells.
ShapeKept(m, n) ==
  /\ n.numRows = m.numRows /\ n.numCols = m.numCols
  /\ Len(n.rows) = n.numRows
  /\ \A r \in 1..Len(n.rows) : Len(n.rows[r]) = n.numCols

\* C17: whatever index and list setRow or setColumn is called with, and
\* whether the call succeeds or fails, the Matrix keeps its numRows and
\* numCols, and its grid still has numRows rows of numCols cells each.
C17_ShapeInvariant ==
  [][(call'.op \in {"Matrix.setRow", "Matrix.setColumn"} /\ IsProperMatrix(self))
       => ShapeKept(self, self')
    ]_vars

\* C18: vectorApply(f, axis) leaves its receiver as it was, whatever the
\* callback and the axis: what it writes, it writes into a copy that shares
\* no row with the receiver.
C18_VectorApplyFrame ==
  [][(call'.op = "Matrix.vectorApply" /\ IsGrid(self)) => self' = self]_vars

=============================================================================
